---- MODULE Spec2Model ----
(***************************************************************************)
(* Model of button3.py: the KeyList registry, the Button interrupt         *)
(* handler (debounce check, ghost check, fire), callback dispatch, the     *)
(* foreground operations set_function / reset_count and the reads, the    *)
(* Volume consumer whose up/down handlers are bound to buttons and whose   *)
(* constructor writes the PWM device, and the Toggle consumer.             *)
(*                                                                         *)
(* Time is real time in milliseconds (now); the millisecond clock the      *)
(* code reads is now modulo the clock period.  The interrupt handler runs  *)
(* to completion (single core, interrupts serialised); set_function is a   *)
(* foreground operation and is modelled statement by statement, because    *)
(* an interrupt may fire between its assignments.                          *)
(***************************************************************************)
EXTENDS Integers, Sequences, FiniteSets, TLC

VARIABLES
    now,        \* real time in ms since boot (the clock reads now % period)
    klist,      \* Button._kroster._klist: sequence of <<pin, button>>
    btn,        \* the Button objects constructed so far, by identity 1..Len(btn)
    vol,        \* the Volume object: [min, max, vol]
    fg,         \* the foreground's position inside set_function
    last,       \* what the latest interrupt handler invocation did
    hist,       \* per button: observations of its accepted events and calls
    pwm,        \* the PWM device of the Volume: what has been written to it
    vframe,     \* the frame of Volume.__init__: its position and locals
    ret,        \* the foreground's latest construction or read of a Button,
                \* and the value it returned
    toggle      \* the Toggle object: its _on_off, and the line it printed last

vars == <<now, klist, btn, vol, fg, last, hist, pwm, vframe, ret, toggle>>

----------------------------------------------------------------------------
\* Bounds of the model

MaxButtons == 2
TimedButtons == 1
RegistryNow == 200
MaxRange == 2
MaxNow == 600
MaxCount == 2
TicksBits == 9

\* Program constants: the pins of the down, up and toggle buttons, the
\* default debounce interval and the one the wiring script passes
PinDown == 14
PinUp == 15
PinToggle == 11
DefaultBounce == 100
ScriptBounce == 200

Pins == {PinDown, PinUp}
BounceTimes == {DefaultBounce, ScriptBounce}

\* Inputs: the steps by which time advances between events, and the time the
\* Fire step may take between the handler's two clock reads
Deltas == {50, ScriptBounce}
CallbackMs == {0, 50}

None == 0

----------------------------------------------------------------------------
\* The millisecond clock (time.ticks_ms, time.ticks_diff)

TicksPeriod == 2 ^ TicksBits

TicksHalf == TicksPeriod \div 2

ticks_ms(t) == t % TicksPeriod

ticks_diff(a, b) == ((a - b + TicksHalf) % TicksPeriod) - TicksHalf

----------------------------------------------------------------------------
\* Python values held in the bundles and passed to callbacks

PyNone == [t |-> "None", v |-> <<>>]

PyInt(n) == [t |-> "int", v |-> <<n>>]

PyTuple(s) == [t |-> "tuple", v |-> s]

PyList(s) == [t |-> "list", v |-> s]

PyStr(c) == [t |-> "str", v |-> <<c>>]

PyBool(b) == [t |-> "bool", v |-> <<b>>]

\* a float, held as numerator and denominator
PyFloat(n, d) == [t |-> "float", v |-> <<n, d>>]

PyButton(b) == [t |-> "Button", v |-> <<b>>]

KwNone == [t |-> "None", v |-> {}]

PyDict(items) == [t |-> "dict", v |-> items]

\* truth value of a keyword bundle: None and the empty dict are false
Truthy(d) == d.t = "dict" /\ d.v # {}

Bind(f, a, k) == [function |-> f, fargs |-> a, fkwargs |-> k]

NoBinding == Bind("None", PyNone, KwNone)

NoCall == [fn |-> "None", pos |-> <<>>, kw |-> {}]

----------------------------------------------------------------------------
\* KeyList

_findkey(kl, key) ==
    LET hits == {i \in 1..Len(kl) : kl[i][1] = key}
    IN  IF hits = {} THEN -1
        ELSE (CHOOSE i \in hits : \A j \in hits : i <= j) - 1

\* a __setitem__ that appends without looking for the key
KeyList_setitem_Append(kl, key, value) == Append(kl, <<key, value>>)

KeyList_setitem(kl, key, value) ==
    LET i == _findkey(kl, key)
    IN  IF i # -1 THEN [kl EXCEPT ![i + 1] = <<key, value>>]
        ELSE Append(kl, <<key, value>>)

\* a __getitem__ that falls back to the first entry for a key it does not hold
KeyList_getitem_First(kl, key) ==
    LET i == _findkey(kl, key)
    IN  IF i # -1 THEN kl[i + 1][2]
        ELSE IF Len(kl) > 0 THEN kl[1][2] ELSE None

KeyList_getitem(kl, key) ==
    LET i == _findkey(kl, key)
    IN  IF i # -1 THEN kl[i + 1][2] ELSE None

KeyList_keys(kl) == [i \in 1..Len(kl) |-> kl[i][1]]

KeyList_values(kl) == [i \in 1..Len(kl) |-> kl[i][2]]

----------------------------------------------------------------------------
\* Button: registry access

_get_myself(kl, pin) == KeyList_getitem(kl, pin)

\* a _put_myself that leaves a pin's existing registration in place
_put_myself_KeepOld(kl, pin, b) ==
    IF KeyList_getitem(kl, pin) # None THEN kl ELSE KeyList_setitem(kl, pin, b)

_put_myself(kl, pin, b) == KeyList_setitem(kl, pin, b)

\* Signal(pin, invert).value() with the inversion left out
SignalValue_IgnoreInvert(invert, level) == level

\* Signal(pin, invert).value(): the pin level, inverted for an active-low button
SignalValue(invert, level) == IF invert THEN ~level ELSE level

get_signal(b, level) == SignalValue(btn[b].invert, level)

get_count(b) == btn[b].count

\* Button._get_name: the GPIOxx part of the pin's repr
_get_name(pin) == PyStr(<<"GPIO", pin>>)

\* get_name of a button constructed without a name: line 57 stores
\* _get_name(pin)
get_name(b) == _get_name(btn[b].pin)

\* an _exist_myself that asks whether the button's pin is registered
_exist_myself_ByPin(kl, b) == _findkey(kl, btn[b].pin) # -1

_exist_myself(kl, b) ==
    \E i \in 1..Len(kl) : KeyList_values(kl)[i] = b

----------------------------------------------------------------------------
\* Callback dispatch

\* a normalisation that spreads a list as it spreads a tuple
AsTuple_SpreadList(fargs) ==
    IF fargs.t \in {"tuple", "list"}
    THEN [i \in 1..Len(fargs.v) |-> PyInt(fargs.v[i])]
    ELSE <<fargs>>

\* the positional values of a call: a tuple spreads, anything else is wrapped
AsTuple(fargs) ==
    IF fargs.t = "tuple" THEN [i \in 1..Len(fargs.v) |-> PyInt(fargs.v[i])]
    ELSE <<fargs>>

\* a _do_function whose both-bundles branch forgets the keyword bundle
_do_function_DropKw(self, function, fargs, fkwargs) ==
    IF fargs.t # "None"
    THEN [fn |-> function, pos |-> AsTuple(fargs),
          kw |-> {<<"myself", PyButton(self)>>}]
    ELSE IF Truthy(fkwargs)
    THEN [fn |-> function, pos |-> <<>>,
          kw |-> fkwargs.v \cup {<<"myself", PyButton(self)>>}]
    ELSE [fn |-> function, pos |-> <<>>,
          kw |-> {<<"myself", PyButton(self)>>}]

\* the call made by _do_function: function(*pos, **kw), myself among the keywords
_do_function(self, function, fargs, fkwargs) ==
    IF fargs.t # "None" THEN
        IF Truthy(fkwargs)
        THEN [fn |-> function, pos |-> AsTuple(fargs),
              kw |-> fkwargs.v \cup {<<"myself", PyButton(self)>>}]
        ELSE [fn |-> function, pos |-> AsTuple(fargs),
              kw |-> {<<"myself", PyButton(self)>>}]
    ELSE IF Truthy(fkwargs)
    THEN [fn |-> function, pos |-> <<>>,
          kw |-> fkwargs.v \cup {<<"myself", PyButton(self)>>}]
    ELSE [fn |-> function, pos |-> <<>>,
          kw |-> {<<"myself", PyButton(self)>>}]

\* Python's binding of a call to a parameter list: too many positionals, an
\* unknown keyword, or a keyword for a parameter already filled is a TypeError
BindOk(params, call) ==
    /\ Len(call.pos) <= Len(params)
    /\ \A e \in call.kw :
          \E i \in (Len(call.pos) + 1)..Len(params) : params[i] = e[1]

Arg(params, call, name) ==
    LET i == CHOOSE j \in 1..Len(params) : params[j] = name
    IN  IF i <= Len(call.pos) THEN call.pos[i]
        ELSE IF \E e \in call.kw : e[1] = name
        THEN (CHOOSE e \in call.kw : e[1] = name)[2]
        ELSE PyNone

----------------------------------------------------------------------------
\* Volume

Min(a, b) == IF a <= b THEN a ELSE b

Max(a, b) == IF a >= b THEN a ELSE b

\* Volume.__init__ runs to its end: the curve is valid and u16value(min)
\* divides by range ** exp, which raises when max = min
VolumeAccepts(vmin, vmax, initial) == vmax - vmin # 0

NewVolume(vmin, vmax, initial) == [min |-> vmin, max |-> vmax, vol |-> initial]

\* the default of Volume.__init__'s freq parameter
DefaultFreq == 120

\* the curve selectors a caller may pass: numbers, the four letters, and
\* values that are neither
Curves ==
    { PyInt(2), PyFloat(7, 10),
      PyStr("A"), PyStr("B"), PyStr("C"), PyStr("D"),
      PyStr("X"), PyStr("a"), PyStr("AB"), PyStr(""), PyBool(TRUE), PyNone }

\* a curve check that skips the assertion: an unsupported selector leaves
\* the exponent None
CurveExp_NoAssert(curve) ==
    IF curve.t \in {"int", "float"} THEN [exc |-> "none", exp |-> curve]
    ELSE IF curve = PyStr("A") THEN [exc |-> "none", exp |-> PyInt(2)]
    ELSE IF curve = PyStr("B") THEN [exc |-> "none", exp |-> PyInt(1)]
    ELSE IF curve = PyStr("C") THEN [exc |-> "none", exp |-> PyFloat(7, 10)]
    ELSE IF curve = PyStr("D") THEN [exc |-> "none", exp |-> PyInt(3)]
    ELSE [exc |-> "none", exp |-> PyNone]

\* lines 180-186: the exponent for the curve selector, or the assertion's
\* error for a selector that is neither a number nor one of 'A','B','C','D'
CurveExp(curve) ==
    IF curve.t \in {"int", "float"} THEN [exc |-> "none", exp |-> curve]
    ELSE IF curve \notin {PyStr("A"), PyStr("B"), PyStr("C"), PyStr("D")}
    THEN [exc |-> "AssertionError", exp |-> PyNone]
    ELSE IF curve = PyStr("A") THEN [exc |-> "none", exp |-> PyInt(2)]
    ELSE IF curve = PyStr("B") THEN [exc |-> "none", exp |-> PyInt(1)]
    ELSE IF curve = PyStr("C") THEN [exc |-> "none", exp |-> PyFloat(7, 10)]
    ELSE [exc |-> "none", exp |-> PyInt(3)]

\* the error u16value(value) raises, "none" when it returns: value ** exp
\* with exp None is a TypeError, and the division by range ** exp fails for
\* range 0 (the exponents of Curves are positive)
u16valueExc(value, range, exp) ==
    IF exp.t = "None" THEN "TypeError"
    ELSE IF range = 0 THEN "ZeroDivisionError"
    ELSE "none"

\* the PWM device before anything is written to it, and after line 282
NoPwm == [freq |-> None, duty |-> FALSE]

ScriptPwm == [freq |-> DefaultFreq, duty |-> TRUE]

\* no Volume object yet
NoVolume == NewVolume(None, None, None)

\* the frame of Volume.__init__: before the call, and after line 282 returned
NoFrame ==
    [pc |-> "none", curve |-> PyNone, freq |-> None, exp |-> PyNone,
     result |-> "none"]

ScriptFrame ==
    [pc |-> "done", curve |-> PyStr("A"), freq |-> DefaultFreq,
     exp |-> PyInt(2), result |-> "returned"]

\* the outcome of Volume.up on volume v for the call; oppLevel is the level of
\* the opposite button's pin when get_signal reads it
Volume_up(v, call, oppLevel) ==
    IF ~BindOk(<<"opposite", "myself">>, call)
    THEN [exc |-> "TypeError", vol |-> v]
    ELSE LET opposite == Arg(<<"opposite", "myself">>, call, "opposite")
             v1 == [v EXCEPT !.vol = Min(v.vol + 1, v.max)]
         IN  IF opposite.t # "Button"
             THEN [exc |-> "AttributeError", vol |-> v1]
             ELSE IF get_signal(opposite.v[1], oppLevel)
             THEN [exc |-> "none", vol |-> [v1 EXCEPT !.vol = v.min]]
             ELSE [exc |-> "none", vol |-> v1]

Volume_down(v, call, oppLevel) ==
    IF ~BindOk(<<"myself", "opposite">>, call)
    THEN [exc |-> "TypeError", vol |-> v]
    ELSE LET opposite == Arg(<<"myself", "opposite">>, call, "opposite")
             v1 == [v EXCEPT !.vol = Max(v.vol - 1, v.min)]
         IN  IF opposite.t # "Button"
             THEN [exc |-> "AttributeError", vol |-> v1]
             ELSE IF get_signal(opposite.v[1], oppLevel)
             THEN [exc |-> "none", vol |-> [v1 EXCEPT !.vol = v.min]]
             ELSE [exc |-> "none", vol |-> v1]

\* the Toggle of line 258 after construction: off, nothing printed
NewToggle == [on_off |-> FALSE, out |-> <<>>]

\* the outcome of Toggle.toggle on toggle t for the call; b holds the Button
\* objects as they are when the callback runs. Line 240 prints the name and
\* the counter of myself
Toggle_toggle(t, call, b) ==
    IF ~BindOk(<<"myself">>, call)
    THEN [exc |-> "TypeError", toggle |-> t]
    ELSE LET myself == Arg(<<"myself">>, call, "myself").v[1]
         IN  [exc |-> "none",
              toggle |-> [on_off |-> ~t.on_off,
                          out |-> <<_get_name(b[myself].pin), b[myself].count>>]]

\* what invoking the bound callable does to the Volume: "probe" stands for a
\* user callback that accepts any arguments and returns
Invoke(call, v, oppLevel) ==
    IF call.fn = "up" THEN Volume_up(v, call, oppLevel)
    ELSE IF call.fn = "down" THEN Volume_down(v, call, oppLevel)
    ELSE [exc |-> "none", vol |-> v]

----------------------------------------------------------------------------
\* The bindings (function, args, kwargs) a caller may pass

\* the four binding shapes of a user callback, and no callback at all
ShapeBindings ==
    { NoBinding,
      Bind("probe", PyNone, KwNone),
      Bind("probe", PyTuple(<<5>>), KwNone),
      Bind("probe", PyNone, PyDict({<<"x", PyInt(1)>>})),
      Bind("probe", PyTuple(<<5>>), PyDict({<<"x", PyInt(1)>>})) }

\* no callback, a callback that returns, and one that raises: Volume.up bound
\* without an opposite button
PlainBindings ==
    { NoBinding, Bind("probe", PyNone, KwNone), Bind("up", PyNone, KwNone) }

\* lines 287-288 of the wiring script
DownBinding(o) == Bind("down", PyNone, PyDict({<<"opposite", PyButton(o)>>}))

UpBinding(o) == Bind("up", PyTuple(<<>>), PyDict({<<"opposite", PyButton(o)>>}))

\* the Volume of the wiring script: min 0, max 10, initial 0
ScriptVolume == NewVolume(0, 10, 0)

Idle == [pc |-> "idle", b |-> None, bind |-> NoBinding, result |-> "none"]

\* the foreground has constructed and read no Button
NoRead == [call |-> <<>>, value |-> PyNone]

NewButton(pin, invert, bouncetime, bind) ==
    [pin |-> pin, invert |-> invert, dtime |-> bouncetime,
     time_ticks |-> 0, count |-> 0,
     function |-> bind.function, fargs |-> bind.fargs, fkwargs |-> bind.fkwargs]

----------------------------------------------------------------------------
\* The scenario of edges at clock times 0, 50 and 250, all reading pressed,
\* delivered to a fresh button with debounce interval 200

ScenarioBounce == ScriptBounce

ScenarioTimes == <<0, 50, 250>>

\* progress of the scenario for one button: the number of scenario edges
\* delivered so far, or -1 once its history is not the scenario's
ScenStep(s, clock, pressed) ==
    IF s >= 0 /\ s < Len(ScenarioTimes) /\ pressed /\ clock = ScenarioTimes[s + 1]
    THEN s + 1
    ELSE -1

NewHist(bouncetime) ==
    [accAt |-> -1, nacc |-> 0, ncalls |-> 0, call |-> NoCall,
     scen |-> IF bouncetime = ScenarioBounce THEN 0 ELSE -1]

----------------------------------------------------------------------------
\* State after the module's classes are defined and the Volume is constructed

Init ==
    /\ now = 0
    /\ klist = <<>>
    /\ btn = <<>>
    /\ vol = ScriptVolume
    /\ fg = Idle
    /\ last = [myself |-> None, outcome |-> "none"]
    /\ hist = <<>>
    /\ pwm = ScriptPwm
    /\ vframe = ScriptFrame
    /\ ret = NoRead
    /\ toggle = NewToggle

\* time passes
Tick(d) ==
    /\ now + d <= MaxNow
    /\ now' = now + d
    /\ UNCHANGED <<klist, btn, vol, fg, last, hist, pwm, vframe, ret, toggle>>

\* Button.__init__
Construct(pin, invert, bouncetime, bind) ==
    /\ fg.pc = "idle"
    /\ btn' = Append(btn, NewButton(pin, invert, bouncetime, bind))
    /\ klist' = _put_myself(klist, pin, Len(btn) + 1)
    /\ hist' = Append(hist, NewHist(bouncetime))
    /\ ret' = [call |-> <<"Button", pin>>, value |-> PyButton(Len(btn) + 1)]
    /\ UNCHANGED <<now, vol, fg, last, pwm, vframe, toggle>>

\* a line 95 that leaves the counter as it is
Line95_Skip(b, myself) == b

\* line 95: myself._count += 1
Line95(b, myself) == [b EXCEPT ![myself].count = @ + 1]

\* the Fire step of Button._handler for the button myself (lines 93-101): dur
\* is the time the step takes, between the handler's two clock reads. The
\* callback runs on the Button objects as line 95 left them
Fire(myself, dur, oppLevel) ==
    LET me == btn[myself]
        counted == Line95(btn, myself)
        bound == me.function # "None"
        call == IF bound
                THEN _do_function(myself, me.function, me.fargs, me.fkwargs)
                ELSE NoCall
        tres == IF bound /\ call.fn = "toggle"
                THEN Toggle_toggle(toggle, call, counted)
                ELSE [exc |-> "none", toggle |-> toggle]
        res == IF bound /\ call.fn = "toggle"
               THEN [exc |-> tres.exc, vol |-> vol]
               ELSE IF bound THEN Invoke(call, vol, oppLevel)
               ELSE [exc |-> "none", vol |-> vol]
    IN  /\ hist[myself].nacc < MaxCount
        /\ now + dur <= MaxNow
        /\ now' = now + dur
        /\ vol' = res.vol
        /\ toggle' = tres.toggle
        /\ pwm' = IF bound /\ call.fn \in {"up", "down"} /\ res.exc = "none"
                  THEN [pwm EXCEPT !.duty = TRUE]
                  ELSE pwm
        /\ btn' = [counted EXCEPT ![myself].time_ticks =
                     IF res.exc = "none" THEN ticks_ms(now + dur) ELSE @]
        /\ hist' = [hist EXCEPT ![myself] =
                     [accAt |-> now + dur,
                      nacc |-> @.nacc + 1,
                      ncalls |-> IF bound THEN @.ncalls + 1 ELSE @.ncalls,
                      call |-> IF bound THEN call ELSE @.call,
                      scen |-> ScenStep(@.scen, ticks_ms(now), TRUE)]]
        /\ last' = [myself |-> myself,
                    outcome |-> IF res.exc = "none" THEN "fired" ELSE res.exc]
        /\ UNCHANGED <<klist, fg, vframe, ret>>

\* a discard that restarts the debounce window of the button
Discard_Restart(myself, level, why) ==
    /\ last' = [myself |-> myself, outcome |-> why]
    /\ hist' = IF myself = None THEN hist
               ELSE [hist EXCEPT ![myself].scen =
                       ScenStep(@, ticks_ms(now),
                                SignalValue(btn[myself].invert, level))]
    /\ btn' = IF myself = None THEN btn
              ELSE [btn EXCEPT ![myself].time_ticks = ticks_ms(now)]
    /\ UNCHANGED <<now, klist, vol, fg, pwm, vframe, ret, toggle>>

\* an edge the handler discards
Discard(myself, level, why) ==
    /\ last' = [myself |-> myself, outcome |-> why]
    /\ hist' = IF myself = None THEN hist
               ELSE [hist EXCEPT ![myself].scen =
                       ScenStep(@, ticks_ms(now),
                                SignalValue(btn[myself].invert, level))]
    /\ UNCHANGED <<now, klist, btn, vol, fg, pwm, vframe, ret, toggle>>

\* Button._handler(pin): level is the pin's level when the handler reads it
Handler(pin, level, dur, oppLevel) ==
    LET myself == _get_myself(klist, pin)
    IN  IF myself = None
        THEN Discard(None, level, "noentry")
        ELSE IF ticks_diff(ticks_ms(now), btn[myself].time_ticks) < btn[myself].dtime
        THEN Discard(myself, level, "bounce")
        ELSE IF ~SignalValue(btn[myself].invert, level)
        THEN Discard(myself, level, "ghost")
        ELSE Fire(myself, dur, oppLevel)

\* a reset_count that registers the button again
ResetCount_Reregister(b) ==
    /\ fg.pc = "idle"
    /\ btn[b].count # 0
    /\ btn' = [btn EXCEPT ![b].count = 0]
    /\ klist' = _put_myself(klist, btn[b].pin, b)
    /\ hist' = [hist EXCEPT ![b].scen = -1]
    /\ UNCHANGED <<now, vol, fg, last, pwm, vframe, ret, toggle>>

\* Button.reset_count
ResetCount(b) ==
    /\ fg.pc = "idle"
    /\ btn[b].count # 0
    /\ btn' = [btn EXCEPT ![b].count = 0]
    /\ hist' = [hist EXCEPT ![b].scen = -1]
    /\ UNCHANGED <<now, klist, vol, fg, last, pwm, vframe, ret, toggle>>

\* a get_count that clears the counter it reads
GetCount_Clearing(b) ==
    /\ fg.pc = "idle"
    /\ ret' = [call |-> <<"get_count", b>>, value |-> PyInt(get_count(b))]
    /\ btn' = [btn EXCEPT ![b].count = 0]
    /\ UNCHANGED <<now, klist, vol, fg, last, hist, pwm, vframe, toggle>>

\* Button.get_count, called by the foreground
GetCount(b) ==
    /\ fg.pc = "idle"
    /\ ret' = [call |-> <<"get_count", b>>, value |-> PyInt(get_count(b))]
    /\ UNCHANGED <<now, klist, btn, vol, fg, last, hist, pwm, vframe, toggle>>

\* Button.get_name
GetName(b) ==
    /\ fg.pc = "idle"
    /\ ret' = [call |-> <<"get_name", b>>, value |-> get_name(b)]
    /\ UNCHANGED <<now, klist, btn, vol, fg, last, hist, pwm, vframe, toggle>>

\* Button.get_signal: level is the pin's level when it is read
GetSignal(b, level) ==
    /\ fg.pc = "idle"
    /\ ret' = [call |-> <<"get_signal", b>>,
               value |-> PyBool(get_signal(b, level))]
    /\ UNCHANGED <<now, klist, btn, vol, fg, last, hist, pwm, vframe, toggle>>

\* Button.set_function, line 141: the assertion
SetFunctionCall(b, bind) ==
    /\ fg.pc = "idle"
    /\ fg' = IF _exist_myself(klist, b)
             THEN [pc |-> "l142", b |-> b, bind |-> bind, result |-> "none"]
             ELSE [Idle EXCEPT !.result = "AssertionError"]
    /\ UNCHANGED <<now, klist, btn, vol, last, hist, pwm, vframe, ret, toggle>>

\* a line 142 that writes the callback and both bundles at once
SetFunction142_Atomic ==
    /\ fg.pc = "l142"
    /\ btn' = [btn EXCEPT ![fg.b].function = fg.bind.function,
                          ![fg.b].fargs = fg.bind.fargs,
                          ![fg.b].fkwargs = fg.bind.fkwargs]
    /\ fg' = [fg EXCEPT !.pc = "l143"]
    /\ UNCHANGED <<now, klist, vol, last, hist, pwm, vframe, ret, toggle>>

\* line 142
SetFunction142 ==
    /\ fg.pc = "l142"
    /\ btn' = [btn EXCEPT ![fg.b].function = fg.bind.function]
    /\ fg' = [fg EXCEPT !.pc = "l143"]
    /\ UNCHANGED <<now, klist, vol, last, hist, pwm, vframe, ret, toggle>>

\* line 143
SetFunction143 ==
    /\ fg.pc = "l143"
    /\ btn' = [btn EXCEPT ![fg.b].fargs = fg.bind.fargs]
    /\ fg' = [fg EXCEPT !.pc = "l144"]
    /\ UNCHANGED <<now, klist, vol, last, hist, pwm, vframe, ret, toggle>>

\* line 144 and return
SetFunction144 ==
    /\ fg.pc = "l144"
    /\ btn' = [btn EXCEPT ![fg.b].fkwargs = fg.bind.fkwargs]
    /\ fg' = [Idle EXCEPT !.result = "returned"]
    /\ UNCHANGED <<now, klist, vol, last, hist, pwm, vframe, ret, toggle>>

Buttons == 1..Len(btn)

\* Volume.__init__, lines 173-178: the fields are stored
Volume173(vmin, vmax, initial, freq, curve) ==
    /\ vframe.pc = "none"
    /\ vol' = NewVolume(vmin, vmax, initial)
    /\ vframe' = [pc |-> "l180", curve |-> curve, freq |-> freq,
                  exp |-> PyNone, result |-> "none"]
    /\ UNCHANGED <<now, klist, btn, fg, last, hist, pwm, ret, toggle>>

\* lines 180-186: the curve selector is checked and the exponent stored
Volume180 ==
    /\ vframe.pc = "l180"
    /\ LET r == CurveExp(vframe.curve)
       IN  vframe' = IF r.exc = "none"
                     THEN [vframe EXCEPT !.pc = "l188", !.exp = r.exp]
                     ELSE [vframe EXCEPT !.pc = "done", !.result = r.exc]
    /\ UNCHANGED <<now, klist, btn, vol, fg, last, hist, pwm, ret, toggle>>

\* line 188: pwm.freq(freq)
Volume188 ==
    /\ vframe.pc = "l188"
    /\ pwm' = [pwm EXCEPT !.freq = vframe.freq]
    /\ vframe' = [vframe EXCEPT !.pc = "l189"]
    /\ UNCHANGED <<now, klist, btn, vol, fg, last, hist, ret, toggle>>

\* line 189 and return: pwm.duty_u16(self.u16value(min))
Volume189 ==
    /\ vframe.pc = "l189"
    /\ LET exc == u16valueExc(vol.min, vol.max - vol.min, vframe.exp)
       IN  /\ pwm' = IF exc = "none" THEN [pwm EXCEPT !.duty = TRUE] ELSE pwm
           /\ vframe' = [vframe EXCEPT !.pc = "done",
                            !.result = IF exc = "none" THEN "returned" ELSE exc]
    /\ UNCHANGED <<now, klist, btn, vol, fg, last, hist, ret, toggle>>

----------------------------------------------------------------------------
\* Debounce: one pin, buttons of either polarity and debounce interval, every
\* edge at every time of the 50 ms grid

NextTiming ==
    \/ \E d \in Deltas : Tick(d)
    \/ \E invert \in BOOLEAN, bouncetime \in BounceTimes, bind \in PlainBindings :
          Len(btn) < TimedButtons /\ Construct(PinDown, invert, bouncetime, bind)
    \/ \E level \in BOOLEAN, dur \in CallbackMs : Handler(PinDown, level, dur, FALSE)

SpecTiming == Init /\ [][NextTiming]_vars

----------------------------------------------------------------------------
\* Registry: buttons constructed on two pins, superseding one another, with
\* the foreground operations and interrupts on both pins, at boot and at one
\* later time

RegistryBindings == { NoBinding, Bind("probe", PyNone, KwNone) }

Rebinding == Bind("probe", PyTuple(<<5>>), PyDict({<<"x", PyInt(1)>>}))

\* an interrupt on the pin, its level reading pressed
RegistryEdge(pin) == Handler(pin, FALSE, 0, FALSE)

NextRegistry ==
    \/ now + ScriptBounce <= RegistryNow /\ Tick(ScriptBounce)
    \/ \E pin \in Pins, bind \in RegistryBindings :
          Len(btn) < MaxButtons /\ Construct(pin, TRUE, DefaultBounce, bind)
    \/ \E pin \in Pins : RegistryEdge(pin)
    \/ \E b \in Buttons : ResetCount(b)
    \/ \E b \in Buttons : SetFunctionCall(b, Rebinding)
    \/ SetFunction142
    \/ SetFunction143
    \/ SetFunction144

SpecRegistry == Init /\ [][NextRegistry]_vars

----------------------------------------------------------------------------
\* Dispatch: a button bound and rebound to a callback in each of the binding
\* shapes, and pressed

NextDispatch ==
    \/ Tick(ScriptBounce)
    \/ \E bind \in ShapeBindings :
          Len(btn) < TimedButtons /\ Construct(PinDown, FALSE, DefaultBounce, bind)
    \/ Handler(PinDown, TRUE, 0, FALSE)
    \/ \E b \in Buttons, bind \in ShapeBindings : SetFunctionCall(b, bind)
    \/ SetFunction142
    \/ SetFunction143
    \/ SetFunction144

SpecDispatch == Init /\ [][NextDispatch]_vars

----------------------------------------------------------------------------
\* Volume: the wiring of lines 282-288, two active-low buttons bound to
\* Volume.down and Volume.up with each other as the opposite button, for a
\* Volume of any accepted min <= max and initial value

VolumeConfigs ==
    { NewVolume(vmin, vmin + range, initial) :
        vmin \in 0..1, range \in 0..MaxRange, initial \in -2..(MaxRange + 3) }

InitVolume ==
    /\ now = 0
    /\ vol \in { v \in VolumeConfigs :
                   /\ v.vol \in (v.min - 2)..(v.max + 2)
                   /\ VolumeAccepts(v.min, v.max, v.vol) }
    /\ btn = << NewButton(PinDown, TRUE, ScriptBounce, DownBinding(2)),
                NewButton(PinUp, TRUE, ScriptBounce, UpBinding(1)) >>
    /\ klist = _put_myself(_put_myself(<<>>, PinDown, 1), PinUp, 2)
    /\ fg = Idle
    /\ last = [myself |-> None, outcome |-> "none"]
    /\ hist = << NewHist(ScriptBounce), NewHist(ScriptBounce) >>
    /\ pwm = ScriptPwm
    /\ vframe = ScriptFrame
    /\ ret = [call |-> <<"Button", PinUp>>, value |-> PyButton(2)]
    /\ toggle = NewToggle

NextVolume ==
    \/ Tick(ScriptBounce)
    \/ \E pin \in Pins, oppLevel \in BOOLEAN : Handler(pin, FALSE, 0, oppLevel)

SpecVolume == InitVolume /\ [][NextVolume]_vars

----------------------------------------------------------------------------
\* Claims about the debounce state machine (SpecTiming)

\* the handler has a button to act on, the debounce interval has elapsed on
\* the clock and the pin reads pressed: low for invert = TRUE, high otherwise
Accepting(pin, level) ==
    LET myself == _get_myself(klist, pin)
    IN  /\ myself # None
        /\ ticks_diff(ticks_ms(now), btn[myself].time_ticks) >= btn[myself].dtime
        /\ level = ~btn[myself].invert

\* C1: no two accepted (counter-incrementing) events of a button are closer
\* in time than the button's debounce interval: when an edge is accepted, at
\* least bouncetime has passed since the previous accepted event ended
C1_AcceptedEventsSpaced ==
    [][\A b \in Buttons :
          (hist'[b].nacc > hist[b].nacc /\ hist[b].accAt # -1)
              => now - hist[b].accAt >= btn[b].dtime]_vars

\* C2: after edges reading pressed at clock times 0, 50 and 250 on a fresh
\* button with debounce interval 200, get_count() is 2
C2_ScenarioCountIsTwo ==
    \A b \in Buttons : hist[b].scen = Len(ScenarioTimes) => btn[b].count = 2

\* C3: an edge whose level is not the pressed level (high for invert = TRUE,
\* low for invert = FALSE) never increments the counter and never invokes the
\* callback, whatever time has elapsed
C3_GhostNeverCounts ==
    [][\A pin \in Pins, level \in BOOLEAN, dur \in CallbackMs :
          LET myself == _get_myself(klist, pin)
          IN  (/\ myself # None
               /\ level = btn[myself].invert
               /\ Handler(pin, level, dur, FALSE))
              => /\ btn'[myself].count = btn[myself].count
                 /\ hist'[myself].nacc = hist[myself].nacc
                 /\ hist'[myself].ncalls = hist[myself].ncalls
                 /\ last'.outcome \in {"bounce", "ghost"}]_vars

\* C3 witness: an active-low button that has accepted a press had a later
\* edge, past its debounce interval, rejected because the pin read high
C3_Witness ==
    /\ last.outcome = "ghost"
    /\ btn[last.myself].invert
    /\ btn[last.myself].count = 1

\* C7: an accepted edge increments the counter by exactly one, invokes the
\* bound callback exactly once (never when none is bound) and sets the
\* last-accepted timestamp to the clock at the end of the handler
C7_FireEffects ==
    [][\A pin \in Pins, level \in BOOLEAN, dur \in CallbackMs :
          LET myself == _get_myself(klist, pin)
          IN  (Accepting(pin, level) /\ Handler(pin, level, dur, FALSE))
              => /\ btn'[myself].count = btn[myself].count + 1
                 /\ hist'[myself].ncalls = hist[myself].ncalls
                        + (IF btn[myself].function # "None" THEN 1 ELSE 0)
                 /\ btn'[myself].time_ticks = ticks_ms(now')]_vars

\* C9: an edge that reads pressed and arrives at least the debounce interval
\* of real time after the last accepted event (whose timestamp was recorded)
\* is accepted, however long the gap
C9_NoPressMissed ==
    [][\A pin \in Pins, dur \in CallbackMs :
          LET myself == _get_myself(klist, pin)
          IN  (/\ myself # None
               /\ hist[myself].accAt # -1
               /\ btn[myself].time_ticks = ticks_ms(hist[myself].accAt)
               /\ now - hist[myself].accAt >= btn[myself].dtime
               /\ Handler(pin, ~btn[myself].invert, dur, FALSE))
              => hist'[myself].nacc = hist[myself].nacc + 1]_vars

----------------------------------------------------------------------------
\* Claims about the registry and set_function (SpecRegistry)

\* a later Button was constructed on b's pin
Superseded(b) == \E c \in Buttons : c > b /\ btn[c].pin = btn[b].pin

\* the Button constructed last on the pin, None when there is none
Latest(pin) ==
    LET on == {b \in Buttons : btn[b].pin = pin}
    IN  IF on = {} THEN None ELSE CHOOSE b \in on : \A c \in on : c <= b

\* C4: once a second Button is constructed on its pin, the old button is not
\* live, every interrupt on the pin is resolved to the newest button, and the
\* handler never again changes the old button's counter, timestamp or calls
C4_SupersededIsInert ==
    [][/\ \A b \in Buttons :
             Superseded(b)' => ~_exist_myself(klist', b)
       /\ \A b \in Buttons :
             Superseded(b) =>
                /\ btn'[b].time_ticks = btn[b].time_ticks
                /\ btn'[b].count <= btn[b].count
                /\ hist'[b].nacc = hist[b].nacc
                /\ hist'[b].ncalls = hist[b].ncalls
       /\ \A pin \in Pins :
             RegistryEdge(pin) => last'.myself = Latest(pin)]_vars

\* C4 witness: a button that had accepted a press was superseded, and a later
\* interrupt on the pin fired the new button
C4_Witness ==
    \E b \in Buttons :
        /\ Superseded(b)
        /\ hist[b].nacc = 1
        /\ last.myself # None
        /\ last.myself > b
        /\ btn[last.myself].pin = btn[b].pin
        /\ last.outcome = "fired"

Binding(b) == Bind(btn[b].function, btn[b].fargs, btn[b].fkwargs)

\* C5: set_function on a superseded button fails with the assertion's error
\* and never changes that button's callback or bundles; on a live button it
\* runs to its end and leaves all three as passed
C5_SetFunctionOnlyWhenLive ==
    [][/\ \A b \in Buttons : Superseded(b) => Binding(b)' = Binding(b)
       /\ \A b \in Buttons :
             (fg.pc = "idle" /\ fg'.b = b /\ fg'.pc = "l142") => ~Superseded(b)
       /\ \A b \in Buttons :
             (SetFunctionCall(b, Rebinding) /\ Superseded(b))
                 => fg'.pc = "idle" /\ fg'.result = "AssertionError"
       /\ \A b \in Buttons :
             (SetFunctionCall(b, Rebinding) /\ ~Superseded(b))
                 => fg'.pc = "l142"
       /\ \A b \in Buttons :
             (fg.pc = "l144" /\ fg.b = b /\ fg'.pc = "idle")
                 => fg'.result = "returned" /\ Binding(b)' = fg.bind]_vars

\* C5 witness: a live button has been rebound and set_function on a
\* superseded button has just failed
C5_Witness ==
    /\ fg.result = "AssertionError"
    /\ \E b \in Buttons : Superseded(b) /\ Binding(b) # Rebinding
    /\ \E b \in Buttons : ~Superseded(b) /\ Binding(b) = Rebinding

\* C8: each pin has at most one registry entry, exactly one button is live
\* per pin that has a button, and a button is live if and only if the
\* registry maps its own pin to it
C8_RegistryInvariant ==
    /\ \A i, j \in 1..Len(klist) : klist[i][1] = klist[j][1] => i = j
    /\ \A pin \in Pins :
          Latest(pin) # None =>
             Cardinality({b \in Buttons :
                            btn[b].pin = pin /\ _exist_myself(klist, b)}) = 1
    /\ \A b \in Buttons :
          _exist_myself(klist, b) <=> KeyList_getitem(klist, btn[b].pin) = b
    /\ \A i \in 1..Len(klist) : klist[i][2] = Latest(klist[i][1])

\* C8 witness: a button has been superseded and its pin's one entry holds
\* the newer button
C8_Witness ==
    \E b \in Buttons :
        /\ Superseded(b)
        /\ Len(klist) = 1
        /\ KeyList_getitem(klist, btn[b].pin) > b

----------------------------------------------------------------------------
\* Claims about callback dispatch (SpecDispatch)

\* what the claim says a button's callback receives: the positional values
\* of a bound positional bundle, the entries of a bound keyword bundle, and
\* the button itself as myself
ExpectedCall(b) ==
    [fn |-> btn[b].function,
     pos |-> IF btn[b].fargs.t = "None" THEN <<>>
             ELSE [i \in 1..Len(btn[b].fargs.v) |-> PyInt(btn[b].fargs.v[i])],
     kw |-> (IF btn[b].fkwargs.t = "None" THEN {} ELSE btn[b].fkwargs.v)
                \cup {<<"myself", PyButton(b)>>}]

\* C6: in each binding shape the callback of an accepted edge receives exactly
\* the bound positional values, the bound keyword values and myself
C6_DispatchShapes ==
    [][\A pin \in Pins, level \in BOOLEAN :
          LET myself == _get_myself(klist, pin)
          IN  (/\ Accepting(pin, level)
               /\ btn[myself].function # "None"
               /\ Handler(pin, level, 0, FALSE))
              => hist'[myself].call = ExpectedCall(myself)]_vars

\* C6 witness: a callback bound with both bundles received 5, x = 1 and myself
C6_Witness ==
    \E b \in Buttons :
        hist[b].call = [fn |-> "probe", pos |-> <<PyInt(5)>>,
                        kw |-> {<<"x", PyInt(1)>>, <<"myself", PyButton(b)>>}]

----------------------------------------------------------------------------
\* Claims about the Volume consumer (SpecVolume)

\* C10: after every invocation of the up or down handler the value is in
\* [min, max], and unless the opposite button reads pressed the invocation
\* moves the value by at most one step
C10_VolumeBounded ==
    [][\A pin \in Pins, oppLevel \in BOOLEAN :
          LET myself == _get_myself(klist, pin)
          IN  (/\ Accepting(pin, FALSE)
               /\ btn[myself].function \in {"up", "down"}
               /\ Handler(pin, FALSE, 0, oppLevel))
              => /\ vol'.vol >= vol.min
                 /\ vol'.vol <= vol.max
                 /\ oppLevel => /\ vol'.vol - vol.vol <= 1
                                /\ vol.vol - vol'.vol <= 1]_vars

\* the button bound as opposite in b's keyword bundle
Opposite(b) == (CHOOSE e \in btn[b].fkwargs.v : e[1] = "opposite")[2].v[1]

\* a value brought into [lo, hi]
Clamp(x, lo, hi) == Max(lo, Min(x, hi))

\* C11: when the up or the down handler runs while the opposite button's
\* signal reads pressed the resulting value is the minimum; when it reads
\* not pressed the result is the value one step up (or down), clamped to
\* [min, max]
C11_MutualOverride ==
    [][\A pin \in Pins, oppLevel \in BOOLEAN :
          LET myself == _get_myself(klist, pin)
              step == IF btn[myself].function = "up" THEN 1 ELSE -1
          IN  (/\ Accepting(pin, FALSE)
               /\ btn[myself].function \in {"up", "down"}
               /\ Handler(pin, FALSE, 0, oppLevel))
              => vol'.vol = IF oppLevel = ~btn[Opposite(myself)].invert
                            THEN vol.min
                            ELSE Clamp(vol.vol + step, vol.min, vol.max)]_vars

----------------------------------------------------------------------------
\* Construction of a Volume (lines 165-189), statement by statement, for
\* every curve selector

NextCurve ==
    \/ \E v \in VolumeConfigs, curve \in Curves :
          Volume173(v.min, v.max, v.vol, DefaultFreq, curve)
    \/ Volume180
    \/ Volume188
    \/ Volume189

InitCurve ==
    /\ now = 0
    /\ klist = <<>>
    /\ btn = <<>>
    /\ vol = NoVolume
    /\ fg = Idle
    /\ last = [myself |-> None, outcome |-> "none"]
    /\ hist = <<>>
    /\ pwm = NoPwm
    /\ vframe = NoFrame
    /\ ret = NoRead
    /\ toggle = NewToggle

SpecCurve == InitCurve /\ [][NextCurve]_vars

\* the selector is neither a number nor one of the letters 'A','B','C','D'
Unsupported(curve) ==
    /\ curve.t \notin {"int", "float"}
    /\ \A c \in {"A", "B", "C", "D"} : curve # PyStr(c)

\* C12: constructing a Volume with an unsupported curve selector fails, and
\* when it has failed neither the PWM frequency nor the PWM duty has been
\* written; no write to the PWM happens for such a selector
C12_BadCurveFailsFirst ==
    /\ (vframe.pc # "none" /\ Unsupported(vframe.curve)) => pwm = NoPwm
    /\ (vframe.pc = "done" /\ Unsupported(vframe.curve))
          => vframe.result = "AssertionError"
    /\ (vframe.pc \in {"l188", "l189"}) => ~Unsupported(vframe.curve)

\* C12 witness: construction with the selector 'X' has failed
C12_Witness ==
    /\ vframe.pc = "done"
    /\ vframe.curve = PyStr("X")
    /\ vframe.result = "AssertionError"
    /\ pwm = NoPwm

----------------------------------------------------------------------------
\* Foreground: buttons constructed on one pin, superseding one another,
\* pressed, read, reset and rebound, at boot and at one later time

NextForeground ==
    \/ now + ScriptBounce <= RegistryNow /\ Tick(ScriptBounce)
    \/ Len(btn) < MaxButtons
          /\ Construct(PinDown, TRUE, DefaultBounce, Bind("probe", PyNone, KwNone))
    \/ RegistryEdge(PinDown)
    \/ \E b \in Buttons : ResetCount(b)
    \/ \E b \in Buttons : GetCount(b)
    \/ \E b \in Buttons : GetName(b)
    \/ \E b \in Buttons, level \in BOOLEAN : GetSignal(b, level)
    \/ \E b \in Buttons : SetFunctionCall(b, Rebinding)
    \/ SetFunction142
    \/ SetFunction143
    \/ SetFunction144

SpecForeground == Init /\ [][NextForeground]_vars

\* C13: a button's counter never decreases except by reset_count on that
\* button; only the interrupt handler changes the counter (otherwise) and
\* the last-accepted timestamp; set_function, get_count, get_name,
\* get_signal and the construction of other buttons leave both unchanged
C13_CounterFrame ==
    [][\A b \in Buttons :
          /\ btn'[b].count < btn[b].count => ResetCount(b)
          /\ (\/ btn'[b].count > btn[b].count
              \/ btn'[b].time_ticks # btn[b].time_ticks)
                 => /\ RegistryEdge(btn[b].pin)
                    /\ last' = [myself |-> b, outcome |-> "fired"]
          /\ (fg' # fg \/ ret' # ret \/ Len(btn') # Len(btn))
                 => /\ btn'[b].count = btn[b].count
                    /\ btn'[b].time_ticks = btn[b].time_ticks]_vars

\* C13 witness: a button that has counted a press and been rebound had its
\* counter read as 1
C13_Witness ==
    \E b \in Buttons :
        /\ btn[b].count = 1
        /\ Binding(b) = Rebinding
        /\ ret.call = <<"get_count", b>>
        /\ ret.value = PyInt(1)
        /\ Len(btn) = MaxButtons

\* C14: once a button has been superseded it is never live again, whatever
\* happens later; reset_count on it still sets its counter to 0, changing
\* nothing else of the button and not the registry, and get_count on it
\* still returns its counter
C14_ExpiryPermanent ==
    [][\A b \in Buttons :
          /\ Superseded(b)' => ~_exist_myself(klist', b)
          /\ Superseded(b) => Superseded(b)'
          /\ ~_exist_myself(klist, b) => ~_exist_myself(klist', b)
          /\ (Superseded(b) /\ btn'[b] # btn[b])
                => /\ btn'[b] = [btn[b] EXCEPT !.count = 0]
                   /\ klist' = klist
          /\ (Superseded(b) /\ ret' # ret /\ ret'.call = <<"get_count", b>>)
                => ret'.value = PyInt(btn[b].count)]_vars

\* C14 witness: a superseded button's counter was read as 1 after it was
\* superseded, and then reset to 0; the button is still not live
C14_Witness ==
    \E b \in Buttons :
        /\ Superseded(b)
        /\ ret.call = <<"get_count", b>>
        /\ ret.value = PyInt(1)
        /\ hist[b].nacc = 1
        /\ btn[b].count = 0
        /\ ~_exist_myself(klist, b)

----------------------------------------------------------------------------
\* Claims about discarded interrupts

\* C15: an interrupt for a pin that has no registry entry is discarded
\* without an error and changes no button's counter, timestamp or binding
\* and not the registry
C15_StrayInterruptDiscarded ==
    [][\A pin \in Pins :
          ((\A i \in 1..Len(klist) : klist[i][1] # pin) /\ RegistryEdge(pin))
              => /\ last' = [myself |-> None, outcome |-> "noentry"]
                 /\ btn' = btn
                 /\ klist' = klist
                 /\ hist' = hist
                 /\ vol' = vol]_vars

\* C15 witness: an interrupt on a pin without an entry has been discarded
\* while the other pin's button, which has counted a press, is registered
C15_Witness ==
    /\ last = [myself |-> None, outcome |-> "noentry"]
    /\ Len(klist) = 1
    /\ \E b \in Buttons : btn[b].count = 1 /\ _exist_myself(klist, b)

\* C16: an edge rejected by the debounce check or the ghost check leaves
\* every button as it was (counter, last-accepted timestamp, callback and
\* bundles) and the registry too: the timestamp the next edge is measured
\* against is not moved by a rejected edge
C16_RejectedEdgeChangesNothing ==
    [][\A pin \in Pins, level \in BOOLEAN, dur \in CallbackMs :
          LET myself == _get_myself(klist, pin)
          IN  (/\ myself # None
               /\ ~Accepting(pin, level)
               /\ Handler(pin, level, dur, FALSE))
              => /\ last'.outcome \in {"bounce", "ghost"}
                 /\ btn' = btn
                 /\ klist' = klist
                 /\ vol' = vol
                 /\ hist'[myself].nacc = hist[myself].nacc
                 /\ hist'[myself].ncalls = hist[myself].ncalls]_vars

\* C16 witness: an edge was rejected by the debounce check 50 ms after an
\* accepted one, and the timestamp is still that of the accepted one
C16_Witness ==
    /\ last.outcome = "bounce"
    /\ hist[last.myself].nacc = 1
    /\ now = hist[last.myself].accAt + 50
    /\ btn[last.myself].time_ticks = ticks_ms(hist[last.myself].accAt)

----------------------------------------------------------------------------
\* Bundles: a button bound to a callback with positional bundles that are
\* scalars, lists and tuples (empty or not) and keyword bundles that are
\* None, empty or not, and pressed

BundleArgs ==
    { PyNone, PyInt(5), PyInt(0), PyList(<<5, 6>>), PyList(<<>>),
      PyTuple(<<>>), PyTuple(<<5, 6>>) }

BundleKwargs == { KwNone, PyDict({}), PyDict({<<"x", PyInt(1)>>}) }

BundleBindings == { Bind("probe", a, k) : a \in BundleArgs, k \in BundleKwargs }

NextBundles ==
    \/ Tick(ScriptBounce)
    \/ \E bind \in BundleBindings :
          Len(btn) < TimedButtons /\ Construct(PinDown, FALSE, DefaultBounce, bind)
    \/ Handler(PinDown, TRUE, 0, FALSE)

SpecBundles == Init /\ [][NextBundles]_vars

\* what the claim says the callback receives for the bundles bound to b
NormalisedCall(b) ==
    LET a == btn[b].fargs
        k == btn[b].fkwargs
    IN  [fn |-> btn[b].function,
         pos |-> CASE a = PyNone -> <<>>
                   [] a.t = "tuple" -> [i \in 1..Len(a.v) |-> PyInt(a.v[i])]
                   [] OTHER -> <<a>>,
         kw |-> (IF k = KwNone \/ k = PyDict({}) THEN {} ELSE k.v)
                    \cup {<<"myself", PyButton(b)>>}]

\* C17: at dispatch a positional value that is not a tuple (a scalar, a
\* list) is passed as one positional argument, a tuple passes its elements
\* (none for the empty tuple), an empty or None keyword bundle passes no
\* keyword but myself, args = None with a non-empty keyword bundle passes
\* keywords only, and myself is passed in every case
C17_BundlesNormalised ==
    [][\A level \in BOOLEAN :
          LET myself == _get_myself(klist, PinDown)
          IN  (/\ Accepting(PinDown, level)
               /\ Handler(PinDown, level, 0, FALSE))
              => /\ hist'[myself].call = NormalisedCall(myself)
                 /\ <<"myself", PyButton(myself)>> \in hist'[myself].call.kw
                 /\ last'.outcome = "fired"]_vars

\* C17 witness: a callback bound with the list [5, 6] and an empty keyword
\* bundle received the list as its one positional argument, and myself
C17_Witness ==
    \E b \in Buttons :
        /\ Binding(b) = Bind("probe", PyList(<<5, 6>>), PyDict({}))
        /\ hist[b].call = [fn |-> "probe", pos |-> << PyList(<<5, 6>>) >>,
                            kw |-> {<<"myself", PyButton(b)>>}]

----------------------------------------------------------------------------
\* Rebinding under interrupts: a button bound to a callback with both
\* bundles or to Toggle.toggle with none, rebound to the other by
\* set_function while interrupts arrive

RaceBindings ==
    { Bind("probe", PyTuple(<<5>>), PyDict({<<"x", PyInt(1)>>})),
      Bind("toggle", PyNone, KwNone) }

NextRace ==
    \/ Tick(ScriptBounce)
    \/ \E bind \in RaceBindings :
          Len(btn) < TimedButtons /\ Construct(PinDown, FALSE, DefaultBounce, bind)
    \/ Handler(PinDown, TRUE, 0, FALSE)
    \/ \E b \in Buttons, bind \in RaceBindings : SetFunctionCall(b, bind)
    \/ SetFunction142
    \/ SetFunction143
    \/ SetFunction144

SpecRace == Init /\ [][NextRace]_vars

\* C18: set_function writes the callback, the positional bundle and the
\* keyword bundle in three steps, each leaving the other two fields as they
\* were, and an interrupt accepted after the first step dispatches the new
\* callback with the bundles the button still holds from its previous
\* binding
C18_RebindingNotAtomic ==
    [][/\ (fg.pc = "l142" /\ fg'.pc = "l143")
             => btn' = [btn EXCEPT ![fg.b].function = fg.bind.function]
       /\ (fg.pc = "l143" /\ fg'.pc = "l144")
             => btn' = [btn EXCEPT ![fg.b].fargs = fg.bind.fargs]
       /\ (fg.pc = "l144" /\ fg'.pc = "idle")
             => btn' = [btn EXCEPT ![fg.b].fkwargs = fg.bind.fkwargs]
       /\ \A level \in BOOLEAN :
             (/\ fg.pc = "l143"
              /\ _get_myself(klist, PinDown) = fg.b
              /\ Accepting(PinDown, level)
              /\ fg.bind.function # "None"
              /\ Handler(PinDown, level, 0, FALSE))
             => /\ fg' = fg
                /\ hist'[fg.b].call.fn = fg.bind.function
                /\ hist'[fg.b].call.pos = ExpectedCall(fg.b).pos
                /\ hist'[fg.b].call.kw = ExpectedCall(fg.b).kw]_vars

\* C18 witness: Toggle.toggle, never bound with a bundle, was called with
\* the positional value 5 and the keyword x = 1 of the previous binding,
\* while set_function stood between its first and its second assignment
C18_Witness ==
    /\ fg.pc = "l143"
    /\ fg.bind = Bind("toggle", PyNone, KwNone)
    /\ hist[fg.b].call = [fn |-> "toggle", pos |-> <<PyInt(5)>>,
                           kw |-> {<<"x", PyInt(1)>>, <<"myself", PyButton(fg.b)>>}]

----------------------------------------------------------------------------
\* Claims about a callback that raises (SpecTiming)

\* the outcomes of a handler invocation whose callback raised
Raised == {"TypeError", "AttributeError"}

\* C19: when the callback of an accepted edge raises, the last-accepted
\* timestamp is still set to the clock at the end of the handler, and a
\* further edge within the debounce interval of that accepted edge is
\* rejected, so the counter does not advance again
C19_DebounceSurvivesRaise ==
    [][\A level \in BOOLEAN, dur \in CallbackMs :
          LET myself == _get_myself(klist, PinDown)
          IN  /\ (/\ Accepting(PinDown, level)
                  /\ Handler(PinDown, level, dur, FALSE)
                  /\ last'.outcome \in Raised)
                 => btn'[myself].time_ticks = ticks_ms(now')
              /\ (/\ myself # None
                  /\ last.myself = myself
                  /\ last.outcome \in Raised
                  /\ now - hist[myself].accAt < btn[myself].dtime
                  /\ Handler(PinDown, level, dur, FALSE))
                 => btn'[myself].count = btn[myself].count]_vars

----------------------------------------------------------------------------
\* Toggle: the button of line 260, bound to Toggle.toggle, which prints the
\* counter of myself; also bound with a positional value, which makes the
\* call fail

ToggleBindings ==
    { Bind("toggle", PyNone, KwNone), Bind("toggle", PyInt(5), KwNone) }

NextToggle ==
    \/ \E d \in Deltas : Tick(d)
    \/ \E bind \in ToggleBindings :
          Len(btn) < TimedButtons /\ Construct(PinToggle, TRUE, ScriptBounce, bind)
    \/ \E level \in BOOLEAN, dur \in CallbackMs :
          Handler(PinToggle, level, dur, FALSE)
    \/ \E b \in Buttons : ResetCount(b)

SpecToggle == Init /\ [][NextToggle]_vars

\* C20: the counter is incremented before the callback runs and the
\* timestamp is written only after it has returned: the callback reads a
\* counter that includes the press being dispatched (at least 1), which is
\* the counter the handler leaves; the timestamp is written when the
\* callback returns and not when it raises, the counter in both cases
C20_CountBeforeCallback ==
    [][\A level \in BOOLEAN, dur \in CallbackMs :
          LET myself == _get_myself(klist, PinToggle)
          IN  (/\ Accepting(PinToggle, level)
               /\ btn[myself].function = "toggle"
               /\ Handler(PinToggle, level, dur, FALSE))
              => /\ btn'[myself].count = btn[myself].count + 1
                 /\ last'.outcome = "fired"
                       => /\ toggle'.out
                                = <<_get_name(PinToggle), btn[myself].count + 1>>
                          /\ toggle'.out[2] >= 1
                          /\ toggle'.on_off = ~toggle.on_off
                          /\ btn'[myself].time_ticks = ticks_ms(now')
                 /\ last'.outcome # "fired"
                       => /\ toggle' = toggle
                          /\ btn'[myself].time_ticks = btn[myself].time_ticks]_vars

\* C20 witness: on the second press since construction, after the counter
\* had been reset once, Toggle.toggle printed a counter of 1
C20_Witness ==
    \E b \in Buttons :
        /\ last = [myself |-> b, outcome |-> "fired"]
        /\ hist[b].nacc = 2
        /\ btn[b].count = 1
        /\ toggle = [on_off |-> FALSE, out |-> <<_get_name(PinToggle), 1>>]

====
